---- MODULE Spec2Model ----
(***************************************************************************)
(* Model of app.py: the MGRS validator (validate_mgrs_format), the batch   *)
(* converter (POST /convert) and the KML exporter (POST /export_kml).      *)
(*                                                                         *)
(* A Python str is a sequence of fragments.  User-supplied text has one    *)
(* character per fragment; a literal of the program that is never          *)
(* inspected character by character is written as one fragment.            *)
(* A JSON value is a tagged record (JStr, JNum, JBool, JNull); a key that  *)
(* is missing from an object is the value Absent.                          *)
(***************************************************************************)
EXTENDS Integers, Sequences, FiniteSets, TLC

VARIABLES request, response, pc

vars == <<request, response, pc>>

\* ------------------------------------------------------------------ bounds
MaxRun == 11          \* longest trailing digit run of a generated code
MaxBatch == 3         \* longest point list of a /convert request
MaxExport == 3        \* longest point list of an /export_kml request

\* ------------------------------------------------------------------- text
UpperLetters == <<"A","B","C","D","E","F","G","H","I","J","K","L","M",
                  "N","O","P","Q","R","S","T","U","V","W","X","Y","Z">>
LowerLetters == <<"a","b","c","d","e","f","g","h","i","j","k","l","m",
                  "n","o","p","q","r","s","t","u","v","w","x","y","z">>
DigitChars == <<"0","1","2","3","4","5","6","7","8","9">>
Whitespace == {" ", "\t"}

Range(f) == {f[i] : i \in DOMAIN f}
IndexIn(c, alphabet) == CHOOSE i \in DOMAIN alphabet : alphabet[i] = c

isdigit(c) == c \in Range(DigitChars)
IsUpperAZ(c) == c \in Range(UpperLetters)
\* the character class [C-X] of the pattern
InClassCX(c) == IsUpperAZ(c) /\ IndexIn(c, UpperLetters) >= IndexIn("C", UpperLetters)
                             /\ IndexIn(c, UpperLetters) <= IndexIn("X", UpperLetters)

upper(s) == [i \in 1..Len(s) |->
               IF s[i] \in Range(LowerLetters)
               THEN UpperLetters[IndexIn(s[i], LowerLetters)] ELSE s[i]]

\* re.sub(r'\s+', '', s)
RemoveWhitespace(s) == SelectSeq(s, LAMBDA c : c \notin Whitespace)

\* str.strip()
strip(s) ==
  LET keep == {i \in 1..Len(s) : s[i] \notin Whitespace}
  IN IF keep = {} THEN <<>>
     ELSE SubSeq(s, CHOOSE i \in keep : \A j \in keep : i <= j,
                    CHOOSE i \in keep : \A j \in keep : i >= j)

\* -------------------------------------------------------------- validator
\* re.match(r'^\d{1,2}[C-X][A-Z]{2}\d{2,10}$', s)
PatternMatches(s) ==
  \E z \in 1..2 : \E d \in 2..10 :
     /\ Len(s) = z + 3 + d
     /\ \A i \in 1..z : isdigit(s[i])
     /\ InClassCX(s[z+1])
     /\ IsUpperAZ(s[z+2]) /\ IsUpperAZ(s[z+3])
     /\ \A i \in (z+4)..Len(s) : isdigit(s[i])

\* a scan that starts at the second character (a plausible slip of the
\* "after at least 3 chars" condition)
CoordStartFromOne(s) ==
  LET hits == {i \in 0..(Len(s)-1) : i >= 1 /\ isdigit(s[i+1])}
  IN IF hits = {} THEN 0 ELSE CHOOSE i \in hits : \A j \in hits : i <= j

\* the for-loop that finds coord_start (0-based index, 0 when none found)
CoordStart(s) ==
  LET hits == {i \in 0..(Len(s)-1) : i >= 3 /\ isdigit(s[i+1])}
  IN IF hits = {} THEN 0 ELSE CHOOSE i \in hits : \A j \in hits : i <= j

valid_lengths == {2, 4, 6, 8, 10}

MsgRequired == <<"MGRS code is required">>
MsgFormat == <<"Invalid MGRS format. Expected format: 23KKP4014597230">>
MsgEven == <<"MGRS coordinates must have even number of digits">>
MsgLength(n) == <<"MGRS coordinates must have 2, 4, 6, 8, or 10 digits. Found ",
                  ToString(n), " digits">>

validate_mgrs_format(mgrs_code) ==
  IF mgrs_code = <<>> THEN [ok |-> FALSE, result |-> MsgRequired]
  ELSE
    LET clean_mgrs == RemoveWhitespace(upper(mgrs_code))
        coord_part == SubSeq(clean_mgrs, CoordStart(clean_mgrs) + 1, Len(clean_mgrs))
    IN IF ~PatternMatches(clean_mgrs) THEN [ok |-> FALSE, result |-> MsgFormat]
       ELSE IF Len(coord_part) % 2 # 0 THEN [ok |-> FALSE, result |-> MsgEven]
       ELSE IF Len(coord_part) \notin valid_lengths
            THEN [ok |-> FALSE, result |-> MsgLength(Len(coord_part))]
       ELSE [ok |-> TRUE, result |-> clean_mgrs]

\* ------------------------------------------------------------ JSON values
JStr(s) == [t |-> "str", s |-> s]
JNum(n) == [t |-> "num", n |-> n]
JBool(b) == [t |-> "bool", b |-> b]
JNull == [t |-> "null"]
Absent == [t |-> "absent"]

\* Python truthiness of a value returned by dict.get(key)
Truthy(v) ==
  CASE v.t = "str" -> v.s # <<>>
    [] v.t = "num" -> v.n # 0
    [] v.t = "bool" -> v.b
    [] OTHER -> FALSE

\* p.get(key) or default
GetOr(v, default) == IF Truthy(v) THEN v ELSE default
\* p.get(key, default): only a missing key takes the default
GetDefault(v, default) == IF v.t = "absent" THEN default ELSE v

\* f"Ponto {i+1}" for the 0-based index i
DefaultName(i) == <<"Ponto ", ToString(i + 1)>>
DefaultColor == <<"#3388ff">>
DefaultCategory == <<"Ponto">>

\* ------------------------------------------------- the conversion library
\* A coordinate in degrees with nine decimals: sign, whole degrees, and the
\* fraction in units of 1e-9 degree.
Deg(neg, deg, frac) == [neg |-> neg, deg |-> deg, frac |-> frac]

\* lo <= x <= hi for the symmetric range [-limit, limit]
InRange(x, limit) == x.deg < limit \/ (x.deg = limit /\ x.frac = 0)

\* round(float(x), 8): the fraction in units of 1e-8 degree
Round8(x) ==
  LET q == x.frac \div 10
      r == x.frac % 10
      up == r > 5 \/ (r = 5 /\ q % 2 = 1)
      f8 == IF up THEN q + 1 ELSE q
  IN IF f8 = 100000000 THEN [neg |-> x.neg, deg |-> x.deg + 1, frac8 |-> 0]
     ELSE [neg |-> x.neg, deg |-> x.deg, frac8 |-> f8]

\* What m.toLatLon(code) can do: raise, or return a pair that is in range or
\* has its latitude or its longitude out of range.
LibOutcomes ==
  { [raises |-> TRUE,  lat |-> Deg(FALSE, 0, 0), lon |-> Deg(FALSE, 0, 0)],
    [raises |-> FALSE, lat |-> Deg(TRUE, 10, 123456789), lon |-> Deg(FALSE, 45, 0)],
    [raises |-> FALSE, lat |-> Deg(FALSE, 90, 1), lon |-> Deg(FALSE, 45, 0)],
    [raises |-> FALSE, lat |-> Deg(TRUE, 90, 0), lon |-> Deg(TRUE, 180, 999999996)] }

\* the normalized codes that reach the library
LibCodes == {<<"2","3","K","K","P","1","2","3","4">>, <<"4","Q","F","J","1","2">>}

\* m.toLatLon(clean_mgrs), lib being the library's behaviour on each code
toLatLon(lib, clean_mgrs) == lib[clean_mgrs]

MsgLibrary == <<"MGRSError">>
MsgOutOfRange == <<"Coordinates out of valid range">>

\* -------------------------------------------------------- batch converter
\* code = (p.get("mgrs") or "").strip(); a truthy value that is not a str has
\* no strip() and raises
ItemCodeRaises(p) == Truthy(p.mgrs) /\ p.mgrs.t # "str"
ItemCode(p) == strip(IF Truthy(p.mgrs) THEN p.mgrs.s ELSE <<>>)

\* the entry appended for an empty code
RequiredEntry(name, code, color, category) ==
  [name |-> name, mgrs |-> JStr(code), error |-> JStr(MsgRequired),
   color |-> color, category |-> category]

\* an entry that reports the normalized form of a rejected code
InvalidEntryNormalized(name, code, result, color, category) ==
  [name |-> name, mgrs |-> JStr(RemoveWhitespace(upper(code))), error |-> JStr(result),
   color |-> color, category |-> category]

\* the entry appended when validate_mgrs_format rejects the code
InvalidEntry(name, code, result, color, category) ==
  [name |-> name, mgrs |-> JStr(code), error |-> JStr(result),
   color |-> color, category |-> category]

SuccessEntry(name, clean_mgrs, lat, lon, color, category) ==
  [name |-> name, mgrs |-> JStr(clean_mgrs), lat |-> Round8(lat), lon |-> Round8(lon),
   color |-> color, category |-> category]

\* an except branch that forgets to echo the category
FailedEntryNoCategory(name, clean_mgrs, e, color, category) ==
  [name |-> name, mgrs |-> JStr(clean_mgrs),
   error |-> JStr(<<"Falha ao converter MGRS: ">> \o e), color |-> color]

\* the entry appended by the except branch of the conversion
FailedEntry(name, clean_mgrs, e, color, category) ==
  [name |-> name, mgrs |-> JStr(clean_mgrs),
   error |-> JStr(<<"Falha ao converter MGRS: ">> \o e),
   color |-> color, category |-> category]

\* the try block around m.toLatLon: one entry, success or failure
Converted(name, clean_mgrs, r, color, category) ==
  IF r.raises THEN FailedEntry(name, clean_mgrs, MsgLibrary, color, category)
  ELSE IF ~InRange(r.lat, 90) \/ ~InRange(r.lon, 180)
       THEN FailedEntry(name, clean_mgrs, MsgOutOfRange, color, category)
  ELSE SuccessEntry(name, clean_mgrs, r.lat, r.lon, color, category)

\* a loop that stops at the first rejected item instead of going on
RECURSIVE ConvertLoopBreaks(_, _, _, _)
ConvertLoopBreaks(points, lib, i, out) ==
  IF i >= Len(points) THEN [raised |-> FALSE, out |-> out]
  ELSE
    LET p == points[i + 1] IN
    IF p.t # "obj" \/ ItemCodeRaises(p) THEN [raised |-> TRUE, out |-> out]
    ELSE
      LET code == ItemCode(p)
          name == GetOr(p.name, JStr(DefaultName(i)))
          color == GetOr(p.color, JStr(DefaultColor))
          category == GetOr(p.category, JStr(DefaultCategory))
          v == validate_mgrs_format(code)
      IN IF code = <<>>
         THEN ConvertLoopBreaks(points, lib, i + 1,
                                Append(out, RequiredEntry(name, code, color, category)))
         ELSE IF ~v.ok
         THEN [raised |-> FALSE,
               out |-> Append(out, InvalidEntry(name, code, v.result, color, category))]
         ELSE ConvertLoopBreaks(points, lib, i + 1,
                 Append(out, Converted(name, v.result, toLatLon(lib, v.result),
                                       color, category)))

\* for i, p in enumerate(points): ... ; i is the 0-based index of the next
\* item, out the list built so far, lib what m.toLatLon does for each code.
\* raised: an exception left the loop (p has no get(), or the code no strip()).
RECURSIVE ConvertLoop(_, _, _, _)
ConvertLoop(points, lib, i, out) ==
  IF i >= Len(points) THEN [raised |-> FALSE, out |-> out]
  ELSE
    LET p == points[i + 1] IN
    IF p.t # "obj" \/ ItemCodeRaises(p) THEN [raised |-> TRUE, out |-> out]
    ELSE
      LET code == ItemCode(p)
          name == GetOr(p.name, JStr(DefaultName(i)))
          color == GetOr(p.color, JStr(DefaultColor))
          category == GetOr(p.category, JStr(DefaultCategory))
          v == validate_mgrs_format(code)
      IN IF code = <<>>
         THEN ConvertLoop(points, lib, i + 1,
                          Append(out, RequiredEntry(name, code, color, category)))
         ELSE IF ~v.ok
         THEN ConvertLoop(points, lib, i + 1,
                          Append(out, InvalidEntry(name, code, v.result, color, category)))
         ELSE ConvertLoop(points, lib, i + 1,
                 Append(out, Converted(name, v.result, toLatLon(lib, v.result),
                                       color, category)))

\* the response of POST /convert for the body {"points": points}
ConvertResponse(points, lib) ==
  IF points = <<>>
  THEN [status |-> 400, error |-> <<"No points provided">>]
  ELSE LET r == ConvertLoop(points, lib, 0, <<>>)
       IN IF r.raised THEN [status |-> 500, error |-> <<"Internal server error">>]
          ELSE [status |-> 200, points |-> r.out]

\* ---------------------------------------------------------- KML exporter
\* str.replace(old, new), new being a run of characters
RECURSIVE Replace(_, _, _)
Replace(s, old, new) ==
  IF s = <<>> THEN <<>>
  ELSE (IF Head(s) = old THEN new ELSE <<Head(s)>>) \o Replace(Tail(s), old, new)

Amp == <<"&", "a", "m", "p", ";">>
Lt == <<"&", "l", "t", ";">>
Gt == <<"&", "g", "t", ";">>

\* the three replacements with the ampersand escaped last
EscapeNameAmpLast(s) == Replace(Replace(Replace(s, "<", Lt), ">", Gt), "&", Amp)

\* .replace("&", "&amp;").replace("<", "&lt;").replace(">", "&gt;")
EscapeName(s) == Replace(Replace(Replace(s, "&", Amp), "<", Lt), ">", Gt)

\* .replace("&", "&amp;") of the code and of the category
EscapeAmp(s) == Replace(s, "&", Amp)

\* str(x) inside an f-string
Format(v) ==
  CASE v.t = "str" -> v.s
    [] v.t = "num" -> <<ToString(v.n)>>
    [] v.t = "bool" -> IF v.b THEN <<"True">> ELSE <<"False">>
    [] OTHER -> <<"None">>

\* f"{x:.6f}" of a whole number
Format6(n) == <<ToString(n), ".000000">>

IconKeys == {<<"circle">>, <<"target">>, <<"base">>, <<"enemy">>, <<"observation">>,
             <<"extraction">>, <<"medical">>, <<"supply">>, <<"checkpoint">>, <<"sniper">>}

kml_icon_map(key) ==
  CASE key = <<"circle">> -> <<"pushpin/red-pushpin.png">>
    [] key = <<"target">> -> <<"shapes/target.png">>
    [] key = <<"base">> -> <<"shapes/camping.png">>
    [] key = <<"enemy">> -> <<"shapes/caution.png">>
    [] key = <<"observation">> -> <<"shapes/ranger_station.png">>
    [] key = <<"extraction">> -> <<"shapes/helicopter.png">>
    [] key = <<"medical">> -> <<"shapes/hospitals.png">>
    [] key = <<"supply">> -> <<"shapes/convenience.png">>
    [] key = <<"checkpoint">> -> <<"shapes/roadblock.png">>
    [] key = <<"sniper">> -> <<"shapes/target.png">>

icon_names(key) ==
  CASE key = <<"circle">> -> <<"Padrao">>
    [] key = <<"target">> -> <<"Alvo">>
    [] key = <<"base">> -> <<"Base">>
    [] key = <<"enemy">> -> <<"Inimigo">>
    [] key = <<"observation">> -> <<"Observacao">>
    [] key = <<"extraction">> -> <<"Extracao">>
    [] key = <<"medical">> -> <<"Medico">>
    [] key = <<"supply">> -> <<"Suprimentos">>
    [] key = <<"checkpoint">> -> <<"Checkpoint">>
    [] key = <<"sniper">> -> <<"Sniper">>

IsIconKey(icon) == icon.t = "str" /\ icon.s \in IconKeys
\* kml_icon_map.get(icon_type, kml_icon_map['circle'])
IconUrl(icon) == IF IsIconKey(icon) THEN kml_icon_map(icon.s) ELSE kml_icon_map(<<"circle">>)
\* icon_names.get(icon_type, 'Padrao')
IconName(icon) == IF IsIconKey(icon) THEN icon_names(icon.s) ELSE icon_names(<<"circle">>)

\* p.get('iconType', 'circle')
IconType(p) == GetDefault(p.iconType, JStr(<<"circle">>))

\* used_icons: the set built by the first loop over points (all of them)
UsedIcons(points) == {IconType(points[k]) : k \in 1..Len(points)}

StyleId(icon) == <<"style_">> \o Format(icon)

\* the <Style> elements of the icons: how many times each one is emitted
IconStyles(points) ==
  [st \in {[id |-> StyleId(icon), href |-> IconUrl(icon)] : icon \in UsedIcons(points)}
      |-> 1]

IsNone(v) == v.t \in {"absent", "null"}

\* what raises inside the body of the second loop, for item p
PlacemarkRaises(p) ==
  \/ Truthy(p.name) /\ p.name.t # "str"
  \/ Truthy(p.mgrs) /\ p.mgrs.t # "str"
  \/ Truthy(p.category) /\ p.category.t # "str"
  \/ ~IsNone(p.lat) /\ ~IsNone(p.lon) /\ (p.lat.t # "num" \/ p.lon.t # "num")

\* the <Placemark> of item p at 0-based index i
Placemark(p, i) ==
  [name |-> EscapeName(GetOr(p.name, JStr(DefaultName(i))).s),
   mgrs |-> EscapeAmp(GetOr(p.mgrs, JStr(<<>>)).s),
   category |-> EscapeAmp(GetOr(p.category, JStr(DefaultCategory)).s),
   icon_name |-> IconName(IconType(p)),
   color |-> Format(GetDefault(p.color, JStr(DefaultColor))),
   coords6 |-> <<Format6(p.lat.n), Format6(p.lon.n)>>,
   styleUrl |-> <<"#">> \o StyleId(IconType(p)),
   coordinates |-> <<p.lon.n, p.lat.n, 0>>]

\* for i, p in enumerate(points): the markers emitted and valid_points
RECURSIVE ExportLoop(_, _, _, _)
ExportLoop(points, i, placemarks, valid_points) ==
  IF i >= Len(points)
  THEN [raised |-> FALSE, placemarks |-> placemarks, valid_points |-> valid_points]
  ELSE
    LET p == points[i + 1] IN
    IF PlacemarkRaises(p)
    THEN [raised |-> TRUE, placemarks |-> placemarks, valid_points |-> valid_points]
    ELSE IF IsNone(p.lat) \/ IsNone(p.lon)
    THEN ExportLoop(points, i + 1, placemarks, valid_points)
    ELSE ExportLoop(points, i + 1, Append(placemarks, Placemark(p, i)),
                    Append(valid_points, p))

\* a route that needs more than two points
RouteEmittedAboveTwo(connect, valid_points) == connect /\ Len(valid_points) > 2

\* if connect and len(valid_points) >= 2
RouteEmitted(connect, valid_points) == connect /\ Len(valid_points) >= 2

\* the <LineString> coordinates: f"{p['lon']},{p['lat']},0" for p in valid_points
RouteCoordinates(valid_points) ==
  [k \in 1..Len(valid_points) |-> <<valid_points[k].lon.n, valid_points[k].lat.n, 0>>]

\* the response of POST /export_kml for {"points": points, "connectRoute": c}.
\* The document is its icon styles, its markers in order and its paths (none
\* or one); the timestamps of the title and descriptions are left out.
ExportResponse(points, connectRoute) ==
  IF points = <<>>
  THEN [status |-> 400, error |-> <<"No points to export">>]
  ELSE IF \E k \in 1..Len(points) : points[k].t # "obj"
  THEN [status |-> 500, error |-> <<"Failed to export KML">>]
  ELSE
    LET connect == Truthy(GetDefault(connectRoute, JBool(FALSE)))
        r == ExportLoop(points, 0, <<>>, <<>>)
    IN IF r.raised THEN [status |-> 500, error |-> <<"Failed to export KML">>]
       ELSE [status |-> 200,
             styles |-> IconStyles(points),
             placemarks |-> r.placemarks,
             routes |-> IF RouteEmitted(connect, r.valid_points)
                        THEN <<RouteCoordinates(r.valid_points)>> ELSE <<>>]

\* --------------------------------------------------------------- requests
\* the n-th digit of a generated coordinate run
RunDigit(n) == DigitChars[((7 * n) % 10) + 1]
Run(n) == [k \in 1..n |-> RunDigit(k)]

ZoneParts == {<<>>, <<"4">>, <<"2", "3">>, <<"1", "2", "3">>}
BandParts == {<<>>, <<"A">>, <<"B">>, <<"C">>, <<"I">>, <<"K">>, <<"O">>, <<"X">>,
              <<"Y">>, <<"k">>, <<" ", "K">>}
SquareParts == {<<"K">>, <<"K", "P">>, <<"k", "p">>, <<"K", " ", "P">>,
                <<"K", "P", "Q">>, <<"K", "4">>}
TailParts == {<<>>, <<" ">>}

\* the codes given to validate_mgrs_format
Codes == {z \o b \o q \o Run(n) \o e :
            z \in ZoneParts, b \in BandParts, q \in SquareParts,
            n \in 0..MaxRun, e \in TailParts}

Obj(mgrs, name, color, category) ==
  [t |-> "obj", mgrs |-> mgrs, name |-> name, color |-> color, category |-> category]

\* the items of a /convert batch
ConvertItems ==
  { Obj(JStr(<<"2","3","K","K","P","1","2","3","4">>), JStr(<<"A">>),
        JStr(<<"#ff0000">>), JStr(<<"Base">>)),
    Obj(JStr(<<" ","4","q"," ","f","j"," ","1","2"," ">>), Absent, Absent, Absent),
    Obj(JStr(<<" ","2","3","k"," ","4","0","1","4"," ">>), JStr(<<>>),
        JStr(<<"#00ff00">>), JNull),
    Obj(JStr(<<"2","3","K","K","P","1","2","3">>), JStr(<<"C">>), JStr(<<>>), JStr(<<>>)),
    Obj(JStr(<<" ", " ">>), JStr(<<"B">>), Absent, JStr(<<"Alvo">>)),
    Obj(Absent, JNum(7), JStr(<<"#0000ff">>), Absent),
    Obj(JNum(5), JStr(<<"D">>), Absent, Absent),
    JStr(<<"x">>) }

ExportObj(name, mgrs, category, iconType, color, lat, lon) ==
  [t |-> "obj", name |-> name, mgrs |-> mgrs, category |-> category,
   iconType |-> iconType, color |-> color, lat |-> lat, lon |-> lon]

\* the items of an /export_kml point list
ExportItems ==
  { ExportObj(JStr(<<"A","&","B">>), JStr(<<"2","3","K","K","P","1","2">>),
              JStr(<<"Base">>), JStr(<<"target">>), JStr(<<"#ff0000">>),
              JNum(10), JNum(20)),
    ExportObj(JStr(<<"<","b",">","&","l","t",";">>), JStr(<<"4","Q","&">>),
              JStr(<<"R","&","D">>), Absent, Absent, JNum(0), JNum(0)),
    ExportObj(Absent, Absent, Absent, JStr(<<"custom">>), JStr(<<"#00ff00">>),
              JNum(-7), JNum(8)),
    ExportObj(JStr(<<"x",">","y">>), JStr(<<>>), JStr(<<>>), JStr(<<"enemy">>),
              JStr(<<"#0000ff">>), Absent, JNum(5)),
    ExportObj(JStr(<<>>), Absent, Absent, JStr(<<"target">>), Absent, JNum(3), JNull),
    ExportObj(JStr(<<"Z">>), Absent, Absent, JStr(<<"base">>), Absent,
              JStr(<<"1","0">>), JNum(2)),
    ExportObj(JNum(9), Absent, Absent, Absent, Absent, Absent, Absent),
    JStr(<<"x">>) }

Lists(S, n) == UNION {[1..k -> S] : k \in 0..n}

ValidateRequests == {[op |-> "validate", code |-> c] : c \in Codes}
ConvertRequests == {[op |-> "convert", points |-> ps] : ps \in Lists(ConvertItems, MaxBatch)}
ExportRequests ==
  {[op |-> "export", points |-> ps, connectRoute |-> c] :
      ps \in Lists(ExportItems, MaxExport), c \in {Absent, JBool(TRUE), JBool(FALSE)}}

NoResponse == [status |-> 0]

\* ---------------------------------------------------------- specification
Init ==
  /\ request \in ValidateRequests \cup ConvertRequests \cup ExportRequests
  /\ response = NoResponse
  /\ pc = "received"

\* a call of validate_mgrs_format(code)
Validate ==
  /\ pc = "received" /\ request.op = "validate"
  /\ response' = validate_mgrs_format(request.code)
  /\ pc' = "done"
  /\ UNCHANGED request

\* POST /convert
convert_mgrs ==
  /\ pc = "received" /\ request.op = "convert"
  /\ \E lib \in [LibCodes -> LibOutcomes] :
        response' = ConvertResponse(request.points, lib)
  /\ pc' = "done"
  /\ UNCHANGED request

\* POST /export_kml
export_kml ==
  /\ pc = "received" /\ request.op = "export"
  /\ response' = ExportResponse(request.points, request.connectRoute)
  /\ pc' = "done"
  /\ UNCHANGED request

Next == Validate \/ convert_mgrs \/ export_kml

Spec == Init /\ [][Next]_vars

\* ------------------------------------------------------------- properties
Done(op) == pc = "done" /\ request.op = op

Min(S) == CHOOSE x \in S : \A y \in S : x <= y

\* the number of leading digits and of trailing digits of a code
ZoneLen(s) == Min({k \in 0..Len(s) : k = Len(s) \/ ~isdigit(s[k + 1])})
RunLen(s) == Min({k \in 0..Len(s) : k = Len(s) \/ ~isdigit(s[Len(s) - k])})

\* zone (1-2 digits), band letter, two square letters, trailing digit run
Shaped(s) ==
  /\ ZoneLen(s) \in 1..2
  /\ Len(s) = ZoneLen(s) + 3 + RunLen(s)
  /\ InClassCX(s[ZoneLen(s) + 1])
  /\ IsUpperAZ(s[ZoneLen(s) + 2]) /\ IsUpperAZ(s[ZoneLen(s) + 3])

\* an item that is a record whose code is text (or missing)
ItemWellFormed(p) == p.t = "obj" /\ ~ItemCodeRaises(p)

SuccessKeys == {"name", "mgrs", "lat", "lon", "color", "category"}
ErrorKeys == {"name", "mgrs", "error", "color", "category"}

\* the outcome of item p at 0-based index i, taken on its own
EntryIsOutcomeOf(e, p, i) ==
  LET code == strip(IF Truthy(p.mgrs) THEN p.mgrs.s ELSE <<>>)
      v == validate_mgrs_format(code)
      name == GetOr(p.name, JStr(DefaultName(i)))
      color == GetOr(p.color, JStr(DefaultColor))
      category == GetOr(p.category, JStr(DefaultCategory))
  IN /\ DOMAIN e \in {SuccessKeys, ErrorKeys}
     /\ e.name = name
     /\ IF code = <<>> THEN DOMAIN e = ErrorKeys /\ e.error = JStr(MsgRequired)
        ELSE IF ~v.ok THEN DOMAIN e = ErrorKeys /\ e.error = JStr(v.result)
        ELSE \E r \in LibOutcomes :
                /\ (r.raises \/ ~InRange(r.lat, 90) \/ ~InRange(r.lon, 180))
                     <=> DOMAIN e = ErrorKeys
                /\ DOMAIN e = SuccessKeys =>
                     e.lat = Round8(r.lat) /\ e.lon = Round8(r.lon)

\* C1: every failure caused by one item of a non-empty batch (a non-text code
\* and an item that is not a record included) is that item's error entry; the
\* request does not fail and every item has its entry.
C1_ItemFailureStaysLocal ==
  (Done("convert") /\ request.points # <<>>) =>
     /\ response.status = 200
     /\ Len(response.points) = Len(request.points)
     /\ \A k \in 1..Len(request.points) :
          ~ItemWellFormed(request.points[k]) => "error" \in DOMAIN response.points[k]

\* C2: for a non-empty list of item records the output has one entry per
\* input, and entry i is the outcome of input i whatever the other items are.
C2_LengthAndOrderPreserved ==
  (/\ Done("convert") /\ request.points # <<>>
   /\ \A k \in 1..Len(request.points) : ItemWellFormed(request.points[k])) =>
     /\ response.status = 200
     /\ Len(response.points) = Len(request.points)
     /\ \A k \in 1..Len(request.points) :
          EntryIsOutcomeOf(response.points[k], request.points[k], k - 1)

\* a rejected item followed by a converted one, and a converted one followed
\* by a rejected one
C2_Witness ==
  /\ Done("convert") /\ response.status = 200 /\ Len(response.points) = 3
  /\ DOMAIN response.points[1] = ErrorKeys
  /\ DOMAIN response.points[2] = SuccessKeys
  /\ DOMAIN response.points[3] = ErrorKeys
  /\ ~validate_mgrs_format(ItemCode(request.points[3])).ok

\* the value echoed for a supplied value v with default d, a key that is
\* missing or null counting as absent
EchoWhenAbsent(v, d) == IF v.t \in {"absent", "null"} THEN JStr(d) ELSE v
\* the same with an empty string, zero and false replaced by the default too
EchoWhenFalsy(v, d) ==
  IF \/ v.t \in {"absent", "null"}
     \/ (v.t = "str" /\ v.s = <<>>)
     \/ (v.t = "num" /\ v.n = 0)
     \/ (v.t = "bool" /\ ~v.b)
  THEN JStr(d) ELSE v

\* C3 as stated: every entry has lat and lon or an error, never both nor
\* neither, and echoes the supplied name, color and category, the defaults
\* standing in only for what is absent.
C3_EchoesSuppliedMetadata ==
  (Done("convert") /\ response.status = 200) =>
     \A k \in 1..Len(response.points) :
        LET e == response.points[k]
            p == request.points[k]
        IN /\ DOMAIN e \in {SuccessKeys, ErrorKeys}
           /\ e.name = EchoWhenAbsent(p.name, DefaultName(k - 1))
           /\ e.color = EchoWhenAbsent(p.color, DefaultColor)
           /\ e.category = EchoWhenAbsent(p.category, DefaultCategory)

\* C3 amended: every entry has lat and lon or an error, never both nor
\* neither, and echoes the supplied name, color and category, the defaults
\* ("Ponto {i+1}", "#3388ff", "Ponto") standing in for what is absent or empty.
C3_EchoesMetadataOrDefault ==
  (Done("convert") /\ response.status = 200) =>
     \A k \in 1..Len(response.points) :
        LET e == response.points[k]
            p == request.points[k]
        IN /\ DOMAIN e \in {SuccessKeys, ErrorKeys}
           /\ e.name = EchoWhenFalsy(p.name, DefaultName(k - 1))
           /\ e.color = EchoWhenFalsy(p.color, DefaultColor)
           /\ e.category = EchoWhenFalsy(p.category, DefaultCategory)

\* an out-of-range conversion next to a success, with an empty name defaulted
C3_Witness ==
  /\ Done("convert") /\ response.status = 200 /\ Len(response.points) = 3
  /\ request.points[1].name = JStr(<<>>)
  /\ response.points[1].name = JStr(DefaultName(0))
  /\ DOMAIN response.points[2] = SuccessKeys
  /\ DOMAIN response.points[3] = ErrorKeys
  /\ response.points[3].error = JStr(<<"Falha ao converter MGRS: ">> \o MsgOutOfRange)

\* the letter that follows the zone digits
BandLetter(s) == s[ZoneLen(s) + 1]

\* C4: a code is Valid only if its band letter is in C..X and is not I or O.
C4_BandExcludesIAndO ==
  (Done("validate") /\ response.ok) =>
     /\ InClassCX(BandLetter(response.result))
     /\ BandLetter(response.result) \notin {"I", "O"}

\* C5: for a normalized code of 1-2 zone digits, a band letter, two square
\* letters and a trailing digit run, the scan finds exactly the run and the
\* code is Valid iff the run has 2, 4, 6, 8 or 10 digits.
C5_RunLocatedAndLengthChecked ==
  (Done("validate") /\ Shaped(request.code)) =>
     LET s == request.code IN
     /\ response.ok <=> RunLen(s) \in {2, 4, 6, 8, 10}
     /\ RunLen(s) >= 1 =>
          /\ CoordStart(RemoveWhitespace(upper(s))) = ZoneLen(s) + 3
          /\ Len(s) - CoordStart(RemoveWhitespace(upper(s))) = RunLen(s)

\* a one-digit zone with a ten-digit run is accepted
C5_Witness ==
  /\ Done("validate") /\ Shaped(request.code)
  /\ ZoneLen(request.code) = 1 /\ RunLen(request.code) = 10
  /\ response.ok

HasCoords(p) == ~IsNone(p.lat) /\ ~IsNone(p.lon)
\* the points that keep their marker
Remaining(points) == SelectSeq(points, HasCoords)
\* the 1-based input position of the k-th remaining point
RemainingIndex(points, k) ==
  CHOOSE i \in 1..Len(points) :
     HasCoords(points[i]) /\ Cardinality({j \in 1..i : HasCoords(points[j])}) = k

\* C6: an export of a non-empty list whose points all lack lat or lon fails;
\* no document is returned.
C6_NoEmptyDocument ==
  (/\ Done("export") /\ request.points # <<>>
   /\ \A k \in 1..Len(request.points) :
         request.points[k].t = "obj" /\ ~HasCoords(request.points[k])) =>
     response.status # 200

\* C7: the icon styles defined are exactly those of the icon types of the
\* remaining points, each defined once, and every marker's style is defined.
C7_StylesOfRemainingPoints ==
  (Done("export") /\ response.status = 200) =>
     LET rem == Remaining(request.points) IN
     /\ {st.id : st \in DOMAIN response.styles}
          = {StyleId(IconType(rem[k])) : k \in 1..Len(rem)}
     /\ \A st \in DOMAIN response.styles : response.styles[st] = 1
     /\ \A k \in 1..Len(response.placemarks) :
          \E st \in DOMAIN response.styles :
             response.placemarks[k].styleUrl = <<"#">> \o st.id

\* C8: a path is emitted iff connectRoute is true and at least two points
\* remain; there is at most one, and it visits the remaining points once
\* each, in input order, which is the order of the markers.
C8_RouteVisitsRemainingInOrder ==
  (Done("export") /\ response.status = 200) =>
     LET rem == Remaining(request.points) IN
     /\ Len(response.routes) <= 1
     /\ Len(response.routes) = 1 <=>
          (request.connectRoute = JBool(TRUE) /\ Len(rem) >= 2)
     /\ Len(response.routes) = 1 =>
          /\ response.routes[1] = [k \in 1..Len(rem) |-> <<rem[k].lon.n, rem[k].lat.n, 0>>]
          /\ response.routes[1] =
               [k \in 1..Len(response.placemarks) |-> response.placemarks[k].coordinates]

\* a route through two points of a list that also held a dropped point
C8_Witness ==
  /\ Done("export") /\ response.status = 200
  /\ Len(response.routes) = 1
  /\ Len(request.points) = 3 /\ Len(response.placemarks) = 2
  /\ ~HasCoords(request.points[2])

\* the entity of one character
Entity(c) ==
  CASE c = "&" -> Amp
    [] c = "<" -> Lt
    [] c = ">" -> Gt
    [] OTHER -> <<c>>
RECURSIVE EscapedOnce(_)
EscapedOnce(s) == IF s = <<>> THEN <<>> ELSE Entity(Head(s)) \o EscapedOnce(Tail(s))

\* no raw < or >, and every & opens one of the three entities
NoRawMarkup(s) ==
  \A j \in 1..Len(s) :
     /\ s[j] \notin {"<", ">"}
     /\ s[j] = "&" =>
          \E ent \in {Amp, Lt, Gt} :
             j + Len(ent) - 1 <= Len(s) /\ SubSeq(s, j, j + Len(ent) - 1) = ent

\* C9: every marker's name is the point's name with each &, < and > replaced
\* by its entity exactly once; no raw &, < or > of the name is left.
C9_NameEscapedOnce ==
  (Done("export") /\ response.status = 200) =>
     \A k \in 1..Len(response.placemarks) :
        LET i == RemainingIndex(request.points, k)
            supplied == GetOr(request.points[i].name, JStr(DefaultName(i - 1))).s
        IN /\ response.placemarks[k].name = EscapedOnce(supplied)
           /\ NoRawMarkup(response.placemarks[k].name)

\* a marker whose supplied name holds <, > and an & that already opens "&lt;"
C9_Witness ==
  /\ Done("export") /\ response.status = 200
  /\ \E k \in 1..Len(response.placemarks) :
        /\ request.points[RemainingIndex(request.points, k)].name
             = JStr(<<"<","b",">","&","l","t",";">>)
        /\ response.placemarks[k].name
             = <<"&","l","t",";","b","&","g","t",";","&","a","m","p",";","l","t",";">>

\* an item whose code reaches the validator and is rejected by it
Rejected(p) ==
  /\ ItemWellFormed(p) /\ ItemCode(p) # <<>>
  /\ ~validate_mgrs_format(ItemCode(p)).ok
\* an item whose code passes the validator
Accepted(p) ==
  /\ ItemWellFormed(p) /\ ItemCode(p) # <<>>
  /\ validate_mgrs_format(ItemCode(p)).ok

\* C10 as stated: the entry of a rejected item carries the code exactly as
\* submitted (not trimmed, not uppercased); an accepted item's entry carries
\* the normalized code.
C10_RejectedCodeUnmodified ==
  (Done("convert") /\ response.status = 200) =>
     \A k \in 1..Len(response.points) :
        LET p == request.points[k] IN
        /\ Rejected(p) => response.points[k].mgrs = p.mgrs
        /\ Accepted(p) => response.points[k].mgrs = JStr(RemoveWhitespace(upper(p.mgrs.s)))

\* C10 amended: the entry of a rejected item carries the submitted code with
\* its leading and trailing whitespace trimmed and nothing else changed (not
\* uppercased, inner whitespace kept); an accepted item's entry carries the
\* normalized code.
C10_RejectedCodeTrimmedOnly ==
  (Done("convert") /\ response.status = 200) =>
     \A k \in 1..Len(response.points) :
        LET p == request.points[k] IN
        /\ Rejected(p) => response.points[k].mgrs = JStr(strip(p.mgrs.s))
        /\ Accepted(p) => response.points[k].mgrs = JStr(RemoveWhitespace(upper(p.mgrs.s)))

\* a rejected code with outer and inner whitespace and a lowercase letter,
\* next to an accepted code that was normalized
C10_Witness ==
  /\ Done("convert") /\ response.status = 200 /\ Len(response.points) >= 2
  /\ Rejected(request.points[1])
  /\ request.points[1].mgrs = JStr(<<" ","2","3","k"," ","4","0","1","4"," ">>)
  /\ response.points[1].mgrs = JStr(<<"2","3","k"," ","4","0","1","4">>)
  /\ Accepted(request.points[2])
  /\ request.points[2].mgrs # response.points[2].mgrs

====
